---- MODULE Spec2Model ----
(***************************************************************************)
(* Recording lifecycle and transcription orchestration of the              *)
(* meeting-summarizer desktop application.                                 *)
(*                                                                         *)
(* The frontend (jotai atoms, React handlers, TauriService) is modelled    *)
(* from the TypeScript sources.  Every TauriService call is an             *)
(* asynchronous IPC round trip: the handler runs up to its await, the      *)
(* backend command runs at some later moment, and the continuation of the  *)
(* handler runs when the response is delivered.  Other handlers can run    *)
(* in between.  The Rust backend behind the IPC boundary is not part of    *)
(* the sources; its commands follow the specification document             *)
(* (sections 3, 4.1, 4.6, 5 and 6).                                        *)
(*                                                                         *)
(* The standalone transcription test tool (class WhisperTester) is         *)
(* modelled from its Ruby source together with the Python program it       *)
(* generates and hands to python3 -c.                                      *)
(***************************************************************************)
EXTENDS Integers, Sequences, FiniteSets, Bags

\* ------------------------------------------------------------------ bounds
MaxRecordings == 2     \* recording ids the backend may allocate
MaxInFlight == 2       \* frontend calls that may be awaiting at once
MaxDuration == 1       \* largest elapsed-seconds value the timer reports
MaxTranscriptions == 2 \* transcription records the backend may create
MaxArgs == 2           \* options on the test tool's command line
MaxTextLen == 2        \* tokens of content in the text the engine recognises
MaxSegments == 2       \* segments in the engine's result
MaxPathLen == 4        \* characters of the audio file's path
MaxEchoLen == 4        \* tokens of a text made of pieces of echo phrases
MaxItems == 2          \* items of an array answered to an invoke

RecordingIds == 1..MaxRecordings
TranscriptionIds == 1..MaxTranscriptions
NoId == 0

VARIABLES
    recordingStateAtom,   \* atoms/recording.ts: {isRecording, duration, isPaused}
    recordingsAtom,       \* atoms/recording.ts: Recording[] shown in the list
    currentRecordingAtom, \* atoms/recording.ts: id of the current session or NoId
    isTranscribing,       \* RecordingItem useState, one per mounted item
    calls,                \* bag of the frontend's awaiting calls
    lastResult,           \* outcome of the handler that finished last
    session,              \* backend RecordingSessionManager state
    sessionId,            \* backend: id of the active session or NoId
    nextId,               \* backend: next Recording id to allocate
    recStatus,            \* backend RecordingStore: status of each Recording
    transcriptions,       \* backend TranscriptionStore: records by id
    whisperInitialized,   \* backend: whether the engine has been initialised
    argv,                 \* test tool: the options and the file argument given
    file,                 \* test tool: what the file argument points at
    recognized,           \* test tool: what the engine returns for the audio
    tester,               \* WhisperTester's instance variables
    pc,                   \* test tool: position in WhisperTester#run
    script,               \* test tool: the generated Python program
    python,               \* test tool: the python3 subprocess
    cli,                  \* test tool: its output and exit status
    ipc                   \* TauriService: one invoke, its answer and its outcome

feVars == <<recordingStateAtom, recordingsAtom, currentRecordingAtom,
            isTranscribing>>
beVars == <<session, sessionId, nextId, recStatus, transcriptions,
            whisperInitialized>>
appVars == <<recordingStateAtom, recordingsAtom, currentRecordingAtom,
             isTranscribing, calls, lastResult,
             session, sessionId, nextId, recStatus, transcriptions,
             whisperInitialized>>
cliVars == <<argv, file, recognized, tester, pc, script, python, cli>>
vars == <<recordingStateAtom, recordingsAtom, currentRecordingAtom,
          isTranscribing, calls, lastResult,
          session, sessionId, nextId, recStatus, transcriptions,
          whisperInitialized,
          argv, file, recognized, tester, pc, script, python, cli, ipc>>

\* ------------------------------------------------------------- data model
\* atoms/recording.ts:6-10, the initial value of recordingStateAtom.
InitialRecordingState == [isRecording |-> FALSE, duration |-> 0, isPaused |-> FALSE]

\* A Recording as the backend returns it.  created_at is the backend's
\* allocation order, so a larger value is a later recording.
Recording(i) == [id |-> i, created_at |-> i]

\* An awaiting call, and the record of a finished handler step.
Call(op, arg) == [op |-> op, pc |-> "await", arg |-> arg, err |-> "",
                  id |-> NoId, recs |-> <<>>, orphan |-> FALSE]
Result(op, outcome, err, id) == [op |-> op, outcome |-> outcome, err |-> err, id |-> id]
NoResult == Result("none", "none", "", NoId)

NoTranscription == [recording_id |-> NoId, status |-> "None"]

\* At most MaxInFlight calls await at once.
InFlight == BagToSet(calls)
HasFreeSlot == BagCardinality(calls) < MaxInFlight
Added(c) == calls (+) SetToBag({c})
Removed(c) == calls (-) SetToBag({c})
Replaced(c, d) == (calls (-) SetToBag({c})) (+) SetToBag({d})

\* The backend's answer to the call c.  The answer to a call whose page has
\* been reloaded since is dropped.
Respond(c, answered) == IF c.orphan THEN Removed(c) ELSE Replaced(c, answered)

IdsIn(q) == {q[i].id : i \in 1..Len(q)}

\* A RecordingItem exists only while its recording is in the list; its
\* useState values start again from their defaults when it is mounted anew.
Mounted(list, f, default) == [r \in RecordingIds |-> IF r \in IdsIn(list) THEN f[r] ELSE default]

\* ======================================== the test tool: class WhisperTester
\* Ruby and Python values, as far as the tool tells their classes apart.
\* The value itself is kept as it is written.
Str(v) == [class |-> "String", v |-> v]
Float(v) == [class |-> "Float", v |-> v]
Integer(v) == [class |-> "Integer", v |-> v]
Bool(v) == [class |-> "Boolean", v |-> v]
Array(v) == [class |-> "Array", v |-> v]

\* A Hash as a function from its keys; merge! lets the argument's entries win.
Merge(a, b) == [k \in DOMAIN a \cup DOMAIN b |-> IF k \in DOMAIN b THEN b[k] ELSE a[k]]
Put(h, k, v) == Merge(h, [x \in {k} |-> v])
Reject(h, k) == [x \in DOMAIN h \ {k} |-> h[x]]

\* ------------------------------------------------------- the command line
Languages == {"ja", "en"}
Formats == {"text", "json", "srt"}
Option(flag, value) == [flag |-> flag, value |-> value]

\* The options the tool knows, with the arguments tried for each.
LanguageOptions == {Option("-l", l) : l \in Languages}
FormatOptions == {Option("-f", f) : f \in Formats}
ParamOptions ==
    {Option("-t", t) : t \in {"0", "0.7"}}
      \cup {Option("-b", "3"), Option("-s", "5"), Option("--no-preprocessing", "")}
Options == LanguageOptions \cup FormatOptions \cup ParamOptions

\* Command lines of at most MaxArgs options taken from the set S.
CommandLines(S) == UNION {[1..n -> S] : n \in 0..MaxArgs}

\* OptionParser's Float coercion of the argument of -t, written as Ruby
\* prints the Float.
ToFloat(raw) == IF raw = "0" THEN "0.0" ELSE raw

\* initialize: the instance variables before any option is read.
NewTester ==
    [model_size |-> "small", language |-> "ja", output_format |-> "text",
     whisper_params |-> <<>>]

\* The block of one opts.on in parse_options.
OnOption(t, o) ==
    CASE o.flag = "-l" -> [t EXCEPT !.language = o.value]
      [] o.flag = "-f" -> [t EXCEPT !.output_format = o.value]
      [] o.flag = "-t" ->
            [t EXCEPT !.whisper_params = Put(@, "temperature", Float(ToFloat(o.value)))]
      [] o.flag = "-b" -> [t EXCEPT !.whisper_params = Put(@, "best_of", Integer(o.value))]
      [] o.flag = "-s" -> [t EXCEPT !.whisper_params = Put(@, "beam_size", Integer(o.value))]
      [] o.flag = "--no-preprocessing" ->
            [t EXCEPT !.whisper_params = Put(@, "no_preprocessing", Bool("true"))]

\* parse!(args): the options are handled from left to right.
RECURSIVE ParseAll(_, _)
ParseAll(t, options) ==
    IF options = <<>> THEN t
    ELSE ParseAll(OnOption(t, Head(options)), Tail(options))

\* --------------------------------------------------- build_whisper_params
JapaneseKeys ==
    {"patience", "length_penalty", "suppress_tokens", "word_timestamps",
     "condition_on_previous_text"}

BaseParams(t) ==
    [k \in {"language", "task"} |->
        IF k = "language" THEN Str(t.language) ELSE Str("transcribe")]

FastDefaults ==
    [k \in {"temperature", "best_of", "beam_size"} |->
        CASE k = "temperature" -> Float("0.2")
          [] k = "best_of" -> Integer("1")
          [] k = "beam_size" -> Integer("1")]

JapaneseDefaults ==
    Merge(FastDefaults,
          [k \in JapaneseKeys |->
              CASE k = "patience" -> Float("1.0")
                [] k = "length_penalty" -> Float("1.0")
                [] k = "suppress_tokens" -> Array("[-1]")
                [] k = "word_timestamps" -> Bool("false")
                [] k = "condition_on_previous_text" -> Bool("true")])

LanguageDefaults(t) == IF t.language = "ja" THEN JapaneseDefaults ELSE FastDefaults

\* Mutant: the language-tuned defaults are merged after the user's values.
UserParamsFirst(t) ==
    Merge(Merge(BaseParams(t), Reject(t.whisper_params, "no_preprocessing")),
          LanguageDefaults(t))

\* Mutant: the tuned defaults of "ja" are used for every language.
TunedEverywhere(t) ==
    Merge(Merge(BaseParams(t), JapaneseDefaults),
          Reject(t.whisper_params, "no_preprocessing"))

\* The parameter set before it is written out: the base parameters, the
\* defaults of the language, then the user's values without no_preprocessing.
ResolvedParams(t) ==
    Merge(Merge(BaseParams(t), LanguageDefaults(t)),
          Reject(t.whisper_params, "no_preprocessing"))

\* The Python keyword argument written for a value: a quoted string, True or
\* False, or the value as Ruby prints it.
PyArg(value) ==
    CASE value.class = "String" -> [quoted |-> TRUE, text |-> value.v]
      [] value.class = "Boolean" ->
            [quoted |-> FALSE, text |-> IF value.v = "true" THEN "True" ELSE "False"]
      [] OTHER -> [quoted |-> FALSE, text |-> value.v]

build_whisper_params(t) ==
    LET params == ResolvedParams(t)
    IN [k \in DOMAIN params |-> PyArg(params[k])]

\* --------------------------------------------- run and validate_audio_file
max_size == 500 * 1024 * 1024
valid_extensions == {".wav", ".mp3", ".m4a", ".flac", ".ogg", ".aac", ".mp4", ".mov", ".avi"}
\* String#downcase on the extensions tried.
Downcase(ext) == IF ext = ".WAV" THEN ".wav" ELSE ext

File(exists, isFile, extname, size) ==
    [exists |-> exists, isFile |-> isFile, extname |-> extname, size |-> size]
AudioFile == File(TRUE, TRUE, ".wav", 1)

\* What the file argument may point at: nothing, a directory, or a file of
\* some extension whose size lies around the limit.
Files ==
    {File(FALSE, FALSE, ".wav", 0), File(TRUE, FALSE, ".wav", 0)}
      \cup {File(TRUE, TRUE, e, s) :
               e \in {".wav", ".WAV", ".txt"},
               s \in {0, max_size - 1, max_size, max_size + 1, 2 * max_size}}

Exit(out, status) == [out |-> out, status |-> status, result |-> <<>>]
Running == Exit(<<>>, -1)

\* Mutant: no extension is worth a warning.
NoExtensionWarning(f) == <<>>
\* The puts of validate_audio_file up to its verdict.
ExtensionWarning(f) ==
    IF Downcase(f.extname) \in valid_extensions THEN <<>> ELSE <<"warning: extension">>

\* Mutant: a file of exactly max_size is rejected as well.
TooLargeFromLimit(f) == f.size >= max_size
TooLarge(f) == f.size > max_size

\* ------------------------------------------------------ build_whisper_script
\* The text inserted for the preprocessing stage and the column its first
\* line starts in: the heredoc of preprocessing_code loses its indentation,
\* the line written for --no-preprocessing carries four spaces.
preprocessing_code == [code |-> "librosa", indent |-> 0]
RawFile == [code |-> "audio_data = audio_file", indent |-> 4]

\* Mutant: the preprocessing stage is inserted whatever the flag says.
PreprocessingAlways(t) == TRUE
Preprocessing(t) == "no_preprocessing" \notin DOMAIN t.whisper_params

build_whisper_script(t, audio_file) ==
    [audio_file |-> audio_file,
     model_size |-> t.model_size,
     audio_processing |-> IF Preprocessing(t) THEN preprocessing_code ELSE RawFile,
     params |-> build_whisper_params(t),
     language |-> t.language,
     output_format |-> t.output_format,
     preprocessing |-> IF Preprocessing(t) THEN "True" ELSE "False"]
NoScript == <<>>

\* ----------------------------------------------- the generated Python program
\* Texts are sequences of tokens: the pieces the echo phrases are made of,
\* the blank, and a letter of other content.
IKA == "ika wa"                 \* the three characters before the phrase
ONSEI == "nihongo no onsei desu"
COLON == "colon"                \* the full-width colon
MARU == "maru"                  \* the full-width full stop
Tokens == {IKA, ONSEI, COLON, MARU, " ", "a"}

prompt_patterns == << <<ONSEI, COLON>>, <<IKA, ONSEI, COLON>>, <<ONSEI, MARU>>, <<IKA, ONSEI, MARU>> >>
Placeholder == <<"onsei wo ninshiki dekimasen deshita">>

\* str.strip()
RECURSIVE LStrip(_)
LStrip(text) == IF text # <<>> /\ Head(text) = " " THEN LStrip(Tail(text)) ELSE text
RECURSIVE RStrip(_)
RStrip(text) ==
    IF text # <<>> /\ text[Len(text)] = " " THEN RStrip(SubSeq(text, 1, Len(text) - 1))
    ELSE text
Strip(text) == RStrip(LStrip(text))

\* str.find(pattern) + 1: the place of the first occurrence, 0 if none.
Occurs(pattern, text, i) ==
    /\ i + Len(pattern) - 1 <= Len(text)
    /\ SubSeq(text, i, i + Len(pattern) - 1) = pattern
Find(pattern, text) ==
    IF \E i \in 1..Len(text) : Occurs(pattern, text, i)
    THEN CHOOSE i \in 1..Len(text) :
            /\ Occurs(pattern, text, i)
            /\ \A j \in 1..(i - 1) : ~Occurs(pattern, text, j)
    ELSE 0
Contains(pattern, text) == Find(pattern, text) # 0

\* text.replace(pattern, '', 1)
ReplaceFirst(text, pattern) ==
    LET i == Find(pattern, text)
    IN SubSeq(text, 1, i - 1) \o SubSeq(text, i + Len(pattern), Len(text))

\* while pattern in text: text = text.replace(pattern, '', 1).strip()
RECURSIVE WhileIn(_, _)
WhileIn(pattern, text) ==
    IF Contains(pattern, text) THEN WhileIn(pattern, Strip(ReplaceFirst(text, pattern)))
    ELSE text

\* for pattern in prompt_patterns: ...
RECURSIVE ForPatterns(_, _)
ForPatterns(patterns, text) ==
    IF patterns = <<>> THEN text
    ELSE ForPatterns(Tail(patterns), WhileIn(Head(patterns), text))

\* re.sub(r'\s+', ' ', text)
RECURSIVE SubSpaces(_)
SubSpaces(text) ==
    IF text = <<>> THEN <<>>
    ELSE IF Head(text) = " " THEN <<" ">> \o SubSpaces(LStrip(text))
    ELSE <<Head(text)>> \o SubSpaces(Tail(text))

\* The post-processing for Japanese.
JapanesePostProcessing(text) ==
    LET shaped == Strip(SubSpaces(ForPatterns(prompt_patterns, text)))
    IN IF Strip(shaped) = <<>> THEN Placeholder ELSE shaped

\* text = result.get('text', '').strip(), then the post-processing if the
\* language written into the program is 'ja'.
PostProcessed(language, text) ==
    IF language = "ja" THEN JapanesePostProcessing(Strip(text)) ELSE Strip(text)

\* format_time(seconds), with the time kept in milliseconds; the times tried
\* are multiples of a quarter of a second, which Python's floats hold exactly.
RECURSIVE Digits(_, _)
Digits(n, width) ==
    IF width <= 1 /\ n < 10 THEN <<n>>
    ELSE Digits(n \div 10, width - 1) \o <<n % 10>>
format_time(ms) ==
    LET seconds == ms \div 1000
    IN [hours |-> Digits(seconds \div 3600, 2),
        minutes |-> Digits((seconds % 3600) \div 60, 2),
        secs |-> Digits(seconds % 60, 2),
        millis |-> Digits(ms % 1000, 3)]

\* A path is a sequence of characters: a letter, and the characters that
\* mean something to Python.
QUOTE == "'"
SEMICOLON == ";"
HASH == "#"
LF == "line feed"
PathChars == {"a", QUOTE, SEMICOLON, HASH, LF}
AudioPath == <<"a">>

\* How python3 reads the line  audio_file = '#{audio_file}'  of the try
\* body: the text of the path stands between two quotes of the program, and
\* the tokenizer decides where the string literal ends. Parsed tells whether
\* the line is an error, the value of the string assigned, and the
\* statements that follow the assignment.
Parsed(error, value, injected) == [error |-> error, value |-> value, injected |-> injected]
NotPython == Parsed(TRUE, <<>>, <<>>)
IsQuote(text, i) == i <= Len(text) /\ text[i] = QUOTE
\* After an opening quote at the place before i: two more quotes open a
\* triple-quoted string.
Opens(text, i) ==
    IF IsQuote(text, i) /\ IsQuote(text, i + 1)
    THEN [mode |-> "triple", at |-> i + 2]
    ELSE [mode |-> "str", at |-> i]
RECURSIVE Scan(_, _, _, _, _, _)
Scan(text, i, mode, first, value, injected) ==
    IF i > Len(text) THEN Parsed(mode \in {"str", "triple"}, value, injected)
    ELSE
      LET ch == text[i]
          kept == IF first THEN Append(value, ch) ELSE value
      IN CASE mode = "str" ->
                IF ch = QUOTE THEN Scan(text, i + 1, "operand", first, value, injected)
                ELSE IF ch = LF THEN NotPython
                ELSE Scan(text, i + 1, "str", first, kept, injected)
           [] mode = "triple" ->
                IF IsQuote(text, i) /\ IsQuote(text, i + 1) /\ IsQuote(text, i + 2)
                THEN Scan(text, i + 3, "operand", first, value, injected)
                ELSE Scan(text, i + 1, "triple", first, kept, injected)
           \* after a string, after a name, and after a semicolon
           [] mode \in {"operand", "name", "start"} ->
                CASE ch = QUOTE ->
                       IF mode = "name" THEN NotPython
                       ELSE Scan(text, Opens(text, i + 1).at, Opens(text, i + 1).mode,
                                 first /\ mode # "start", value,
                                 IF mode = "start" THEN Append(injected, "string")
                                 ELSE injected)
                  [] ch = "a" ->
                       IF mode = "operand" THEN NotPython
                       ELSE Scan(text, i + 1, "name", first /\ mode # "start", value,
                                 IF mode = "start" THEN Append(injected, "name")
                                 ELSE injected)
                  [] ch = SEMICOLON ->
                       IF mode = "start" THEN NotPython
                       ELSE Scan(text, i + 1, "start", first, value, injected)
                  [] ch = HASH -> Scan(text, i + 1, "comment", first, value, injected)
                  [] OTHER -> Scan(text, i + 1, "line", first, value, injected)
           [] mode = "comment" ->
                Scan(text, i + 1, IF ch = LF THEN "line" ELSE "comment", first, value,
                     injected)
           \* column 0 of a new line inside the try body
           [] OTHER ->
                IF ch = HASH THEN Scan(text, i + 1, "comment", first, value, injected)
                ELSE IF ch = LF THEN Scan(text, i + 1, "line", first, value, injected)
                ELSE NotPython
PathLiteral(audio_file) ==
    LET text == audio_file \o <<QUOTE>>
    IN Scan(text, Opens(text, 1).at, Opens(text, 1).mode, TRUE, <<>>, <<>>)

Segment(start, end, text) == [start |-> start, end |-> end, text |-> text]
Cue(i, segment) ==
    [index |-> i, start |-> format_time(segment.start), end |-> format_time(segment.end),
     text |-> Strip(segment.text)]

\* What model.transcribe returns, or that it raises.
Recognition(raises, text, segments) == [raises |-> raises, text |-> text, segments |-> segments]

Process(stdout, stderr, status, names) ==
    [stdout |-> stdout, stderr |-> stderr, status |-> status, names |-> names]
NoProcess == Process(<<>>, <<>>, -1, {})

\* The srt branch: the loop over the segments, each cue needing format_time
\* to be a name bound at that moment.
Cues(segments) == [i \in 1..Len(segments) |-> Cue(i, segments[i])]

\* What the body of the try statement prints, given the names bound so far,
\* and how it ends: "" when it runs through, the exception otherwise.
TryBody(s, r, names) ==
    IF r.raises THEN [printed |-> <<>>, raised |-> "RuntimeError"]
    ELSE LET text == PostProcessed(s.language, r.text)
         IN CASE s.output_format = "json" ->
                   [printed |-> <<[text |-> text, language |-> s.language,
                                   segments |-> r.segments, duration |-> 0,
                                   model |-> s.model_size,
                                   preprocessing |-> s.preprocessing = "True"]>>,
                    raised |-> ""]
              [] s.output_format = "srt" ->
                   IF r.segments # <<>> /\ "format_time" \notin names
                   THEN [printed |-> <<>>, raised |-> "NameError"]
                   ELSE [printed |-> Cues(r.segments), raised |-> ""]
              [] OTHER -> [printed |-> <<text>>, raised |-> ""]

CommandLine(options, positional) == [options |-> options, positional |-> positional]
Plain == Recognition(FALSE, <<"a">>, <<>>)

\* The test tool while it is not running.
ToolAtRest ==
    /\ argv = CommandLine(<<>>, <<>>)
    /\ file = AudioFile
    /\ recognized = Plain
    /\ tester = NewTester
    /\ pc = "idle"
    /\ script = NoScript
    /\ python = NoProcess
    /\ cli = Running

\* ------------------------------------------- answers at the invoke boundary
\* A JavaScript value as invoke resolves it: its kind, and its content (the
\* text of a primitive, the fields of an object, the items of an array).
Js(kind, text, fields, items) ==
    [kind |-> kind, text |-> text, fields |-> fields, items |-> items]
JsNull == Js("null", "", <<>>, <<>>)
JsUndefined == Js("undefined", "", <<>>, <<>>)
JsBoolean(b) == Js("boolean", b, <<>>, <<>>)
JsNumber(n) == Js("number", n, <<>>, <<>>)
JsString(t) == Js("string", t, <<>>, <<>>)
JsObject(fields) == Js("object", "", fields, <<>>)
JsArray(items) == Js("array", "", <<>>, items)

\* typeof x, Array.isArray(x), the truth of x in a condition, and x.f.
typeof(x) == IF x.kind \in {"null", "array"} THEN "object" ELSE x.kind
isArray(x) == x.kind = "array"
Truthy(x) ==
    CASE x.kind \in {"null", "undefined"} -> FALSE
      [] x.kind = "boolean" -> x.text = "true"
      [] x.kind = "number" -> x.text # "0"
      [] x.kind = "string" -> x.text # ""
      [] OTHER -> TRUE
Get(x, f) == IF f \in DOMAIN x.fields THEN x.fields[f] ELSE JsUndefined
IsNull(x) == x.kind = "null"

\* types/recording.ts: the type guards.
isValidRecording(obj) ==
    /\ Truthy(obj)
    /\ typeof(Get(obj, "id")) = "string"
    /\ typeof(Get(obj, "filename")) = "string"
    /\ typeof(Get(obj, "file_path")) = "string"
    /\ (IsNull(Get(obj, "duration")) \/ typeof(Get(obj, "duration")) = "number")
    /\ (IsNull(Get(obj, "file_size")) \/ typeof(Get(obj, "file_size")) = "number")
    /\ typeof(Get(obj, "created_at")) = "string"
    /\ typeof(Get(obj, "updated_at")) = "string"

\* isValidTranscriptionStatus on the value received.
isValidStatusValue(status) ==
    IF typeof(status) = "string" THEN status.text \in {"Pending", "Processing", "Completed"}
    ELSE IF typeof(status) = "object" /\ ~IsNull(status)
    THEN "Failed" \in DOMAIN status.fields /\ typeof(Get(status, "Failed")) = "string"
    ELSE FALSE

isValidTranscription(obj) ==
    /\ Truthy(obj)
    /\ typeof(Get(obj, "id")) = "string"
    /\ typeof(Get(obj, "recording_id")) = "string"
    /\ typeof(Get(obj, "text")) = "string"
    /\ typeof(Get(obj, "language")) = "string"
    /\ (IsNull(Get(obj, "confidence")) \/ typeof(Get(obj, "confidence")) = "number")
    /\ (IsNull(Get(obj, "processing_time_ms"))
          \/ typeof(Get(obj, "processing_time_ms")) = "number")
    /\ isValidStatusValue(Get(obj, "status"))
    /\ typeof(Get(obj, "created_at")) = "string"
    /\ typeof(Get(obj, "updated_at")) = "string"

\* What a method of TauriService does with the answer: it throws, or it
\* returns a value.
Threw == [thrown |-> TRUE, value |-> JsUndefined]
Returned(value) == [thrown |-> FALSE, value |-> value]

validateAndParseRecording(obj) == IF ~isValidRecording(obj) THEN Threw ELSE Returned(obj)
validateAndParseTranscription(obj) ==
    IF ~isValidTranscription(obj) THEN Threw ELSE Returned(obj)
validateAndParseRecordings(arr) ==
    IF ~isArray(arr) THEN Threw
    ELSE IF \E i \in 1..Len(arr.items) : validateAndParseRecording(arr.items[i]).thrown THEN Threw
    ELSE Returned(JsArray([i \in 1..Len(arr.items) |-> validateAndParseRecording(arr.items[i]).value]))

stopRecording(result) == validateAndParseRecording(result)
getRecordings(result) == validateAndParseRecordings(result)
getRecording(result) ==
    IF Truthy(result) THEN validateAndParseRecording(result) ELSE Returned(JsNull)
deleteRecording(result) == IF typeof(result) # "boolean" THEN Threw ELSE Returned(result)
transcribeRecording(result) == validateAndParseTranscription(result)
getAudioDevices(result) ==
    IF ~isArray(result) THEN Threw
    ELSE Returned(JsArray(SelectSeq(result.items, LAMBDA device : typeof(device) = "string")))

IpcOps == {"stopRecording", "getRecordings", "getRecording", "transcribeRecording",
           "deleteRecording", "getAudioDevices"}
Outcome(op, result) ==
    CASE op = "stopRecording" -> stopRecording(result)
      [] op = "getRecordings" -> getRecordings(result)
      [] op = "getRecording" -> getRecording(result)
      [] op = "transcribeRecording" -> transcribeRecording(result)
      [] op = "deleteRecording" -> deleteRecording(result)
      [] op = "getAudioDevices" -> getAudioDevices(result)

\* The answers tried: primitives, a Recording and a Transcription as the
\* backend serialises them, the same with one field missing or of another
\* type, and arrays of at most MaxItems items.
Primitives ==
    {JsNull, JsBoolean("true"), JsBoolean("false"), JsNumber("0"), JsNumber("1"),
     JsString(""), JsString("x")}
FieldValues == {JsUndefined, JsNull, JsNumber("1"), JsString("x")}
GoodRecording ==
    [id |-> JsString("x"), filename |-> JsString("x"), file_path |-> JsString("x"),
     duration |-> JsNumber("1"), file_size |-> JsNull,
     created_at |-> JsString("x"), updated_at |-> JsString("x")]
RecordingObjects ==
    {JsObject([GoodRecording EXCEPT ![f] = x]) : f \in DOMAIN GoodRecording, x \in FieldValues}
StatusValues ==
    {JsString("Pending"), JsString("Done"), JsObject([Failed |-> JsString("x")]),
     JsObject([Failed |-> JsNumber("1")])}
GoodTranscription ==
    [id |-> JsString("x"), recording_id |-> JsString("x"), text |-> JsString(""),
     language |-> JsString("x"), confidence |-> JsNull,
     processing_time_ms |-> JsNumber("1"), status |-> JsString("Completed"),
     created_at |-> JsString("x"), updated_at |-> JsString("x")]
TranscriptionObjects ==
    {JsObject([GoodTranscription EXCEPT ![f] = x]) :
        f \in DOMAIN GoodTranscription, x \in FieldValues}
      \cup {JsObject([GoodTranscription EXCEPT !["status"] = x]) : x \in StatusValues}
Items ==
    {JsObject(GoodRecording), JsObject([GoodRecording EXCEPT !["id"] = JsNumber("1")]),
     JsString("x"), JsNumber("1"), JsNull}
Arrays == {JsArray(items) : items \in UNION {[1..n -> Items] : n \in 0..MaxItems}}
Answers == Primitives \cup RecordingObjects \cup TranscriptionObjects \cup Arrays

Invoke(op, state, result, outcome) ==
    [op |-> op, state |-> state, result |-> result, thrown |-> outcome.thrown,
     value |-> outcome.value]
NoInvoke == Invoke("none", "idle", JsNull, Returned(JsUndefined))
IpcAtRest == ipc = NoInvoke

\* ----------------------------------------------------------------- Init
\* The application has just been launched: the atoms hold their initial
\* values, RecordingsList's mount effect has called loadRecordings, the
\* backend is Idle and its store holds the recordings of earlier runs.
AppInit ==
    /\ recordingStateAtom = InitialRecordingState
    /\ recordingsAtom = <<>>
    /\ currentRecordingAtom = NoId
    /\ isTranscribing = [r \in RecordingIds |-> FALSE]
    /\ calls = SetToBag({Call("get_recordings", NoId)})
    /\ lastResult = NoResult
    /\ session = "Idle"
    /\ sessionId = NoId
    /\ nextId \in 1..(MaxRecordings + 1)
    /\ recStatus = [r \in RecordingIds |-> IF r < nextId THEN "Completed" ELSE "None"]
    /\ transcriptions = [t \in TranscriptionIds |-> NoTranscription]
    /\ whisperInitialized = FALSE

Init == AppInit /\ ToolAtRest /\ IpcAtRest

\* ------------------------------------------------ frontend: start recording
\* startRecordingAtom up to its await: the guard on isRecording, then the
\* invoke of start_recording.
\* Mutant: the guard on isRecording is missing.
StartGuardDropped == FALSE
StartGuardFails == recordingStateAtom.isRecording

startRecordingAtom ==
    /\ IF StartGuardFails
       THEN /\ lastResult' = Result("start", "error", "AlreadyInProgress", NoId)
            /\ UNCHANGED <<feVars, beVars, calls>>
       ELSE /\ HasFreeSlot
            /\ calls' = Added(Call("start_recording", NoId))
            /\ UNCHANGED lastResult
            /\ UNCHANGED <<feVars, beVars>>
    /\ UNCHANGED <<cliVars, ipc>>

\* startRecordingAtom after its await: the two set calls on success, the
\* catch block (log and rethrow) on failure.
StartSucceeded(c) ==
    /\ recordingStateAtom' = [isRecording |-> TRUE, duration |-> 0, isPaused |-> FALSE]
    /\ currentRecordingAtom' = c.id
    /\ lastResult' = Result("start", "ok", "", c.id)
    /\ UNCHANGED <<recordingsAtom, isTranscribing>>

StartFailed(c) ==
    /\ lastResult' = Result("start", "error", c.err, NoId)
    /\ UNCHANGED feVars

StartReturns(c) ==
    /\ c.op = "start_recording" /\ c.pc = "resp" /\ ~c.orphan
    /\ IF c.err = "" THEN StartSucceeded(c) ELSE StartFailed(c)
    /\ calls' = Removed(c)
    /\ UNCHANGED beVars
    /\ UNCHANGED <<cliVars, ipc>>

\* ------------------------------------------------- frontend: stop recording
\* Mutant: the guard on isRecording is missing.
StopGuardDropped == FALSE
StopGuardFails == ~recordingStateAtom.isRecording

stopRecordingAtom ==
    /\ IF StopGuardFails
       THEN /\ lastResult' = Result("stop", "error", "NoActiveSession", NoId)
            /\ UNCHANGED <<feVars, beVars, calls>>
       ELSE /\ HasFreeSlot
            /\ calls' = Added(Call("stop_recording", NoId))
            /\ UNCHANGED lastResult
            /\ UNCHANGED <<feVars, beVars>>
    /\ UNCHANGED <<cliVars, ipc>>

\* Mutant: the completed recording is not added to the list.
StopSucceededListUntouched(c) ==
    /\ recordingStateAtom' = [isRecording |-> FALSE, duration |-> 0, isPaused |-> FALSE]
    /\ currentRecordingAtom' = NoId
    /\ lastResult' = Result("stop", "ok", "", c.recs[1].id)
    /\ UNCHANGED <<recordingsAtom, isTranscribing>>

StopSucceeded(c) ==
    /\ recordingStateAtom' = [isRecording |-> FALSE, duration |-> 0, isPaused |-> FALSE]
    /\ recordingsAtom' = c.recs \o recordingsAtom
    /\ currentRecordingAtom' = NoId
    /\ isTranscribing' = Mounted(recordingsAtom', isTranscribing, FALSE)
    /\ lastResult' = Result("stop", "ok", "", c.recs[1].id)

StopFailed(c) ==
    /\ lastResult' = Result("stop", "error", c.err, NoId)
    /\ UNCHANGED feVars

\* Mutant: a successful stop goes on to transcribe the recording it returned.
StopReturnsThenTranscribes(c) ==
    /\ c.op = "stop_recording" /\ c.pc = "resp" /\ ~c.orphan
    /\ IF c.err = ""
       THEN /\ StopSucceeded(c)
            /\ calls' = Replaced(c, Call("transcribe_recording", c.recs[1].id))
       ELSE /\ StopFailed(c)
            /\ calls' = Removed(c)
    /\ UNCHANGED beVars
    /\ UNCHANGED <<cliVars, ipc>>

StopReturns(c) ==
    /\ c.op = "stop_recording" /\ c.pc = "resp" /\ ~c.orphan
    /\ IF c.err = "" THEN StopSucceeded(c) ELSE StopFailed(c)
    /\ calls' = Removed(c)
    /\ UNCHANGED beVars
    /\ UNCHANGED <<cliVars, ipc>>

\* RecordingControls.handleRecordingToggle: stop when the rendered state is
\* recording, start otherwise; an error of either is logged and dropped.
handleRecordingToggle ==
    IF recordingStateAtom.isRecording THEN stopRecordingAtom ELSE startRecordingAtom

\* Mutant: the duration is written whether a recording is going on or not.
UpdateDurationUnguarded(d) ==
    /\ recordingStateAtom' = [recordingStateAtom EXCEPT !.duration = d]
    /\ UNCHANGED <<recordingsAtom, currentRecordingAtom, isTranscribing, calls,
                   lastResult, beVars>>
    /\ UNCHANGED <<cliVars, ipc>>

\* updateRecordingDurationAtom(duration), called by the interval of
\* useRecordingTimer.
updateRecordingDurationAtom(d) ==
    /\ IF recordingStateAtom.isRecording
       THEN recordingStateAtom' = [recordingStateAtom EXCEPT !.duration = d]
       ELSE UNCHANGED recordingStateAtom
    /\ UNCHANGED <<recordingsAtom, currentRecordingAtom, isTranscribing, calls,
                   lastResult, beVars>>
    /\ UNCHANGED <<cliVars, ipc>>

TimerTick == \E d \in 0..MaxDuration : updateRecordingDurationAtom(d)

\* ------------------------------------------------ backend: recording session
\* Mutant: start_recording does not look at the manager's state.
BackendStartRecordingUnguarded(c) ==
    /\ c.op = "start_recording" /\ c.pc = "await"
    /\ nextId <= MaxRecordings
    /\ session' = "Recording"
    /\ sessionId' = nextId
    /\ nextId' = nextId + 1
    /\ recStatus' = [recStatus EXCEPT ![nextId] = "Recording"]
    /\ calls' = Respond(c, [c EXCEPT !.pc = "resp", !.id = nextId])
    /\ UNCHANGED <<transcriptions, whisperInitialized, feVars, lastResult>>
    /\ UNCHANGED <<cliVars, ipc>>

\* start_recording: ConflictError unless Idle; otherwise allocate an id and
\* go to Recording.  The id counter is capped by MaxRecordings.
BackendStartRecording(c) ==
    /\ c.op = "start_recording" /\ c.pc = "await"
    /\ IF session # "Idle"
       THEN /\ calls' = Respond(c, [c EXCEPT !.pc = "resp", !.err = "ConflictError"])
            /\ UNCHANGED beVars
       ELSE /\ nextId <= MaxRecordings
            /\ session' = "Recording"
            /\ sessionId' = nextId
            /\ nextId' = nextId + 1
            /\ recStatus' = [recStatus EXCEPT ![nextId] = "Recording"]
            /\ calls' = Respond(c, [c EXCEPT !.pc = "resp", !.id = nextId])
            /\ UNCHANGED <<transcriptions, whisperInitialized>>
    /\ UNCHANGED <<feVars, lastResult>>
    /\ UNCHANGED <<cliVars, ipc>>

\* stop_recording: NotRecordingError unless Recording; otherwise finalize,
\* persist and return the Recording, or fail in finalization.  Both ways the
\* manager is Idle afterwards.
BackendStopRecording(c) ==
    /\ c.op = "stop_recording" /\ c.pc = "await"
    /\ IF session # "Recording"
       THEN /\ calls' = Respond(c, [c EXCEPT !.pc = "resp", !.err = "NotRecordingError"])
            /\ UNCHANGED beVars
       ELSE /\ session' = "Idle"
            /\ sessionId' = NoId
            /\ \E finalized \in BOOLEAN :
                 IF finalized
                 THEN /\ recStatus' = [recStatus EXCEPT ![sessionId] = "Completed"]
                      /\ calls' = Respond(c, [c EXCEPT !.pc = "resp",
                                                     !.recs = <<Recording(sessionId)>>])
                 ELSE /\ recStatus' = [recStatus EXCEPT ![sessionId] = "Failed"]
                      /\ calls' = Respond(c, [c EXCEPT !.pc = "resp",
                                                     !.err = "FinalizationError"])
            /\ UNCHANGED <<nextId, transcriptions, whisperInitialized>>
    /\ UNCHANGED <<feVars, lastResult>>
    /\ UNCHANGED <<cliVars, ipc>>

\* get_recordings: the persisted recordings, newest first.
RECURSIVE NewestFirst(_)
NewestFirst(n) ==
    IF n = 0 THEN <<>>
    ELSE IF recStatus[n] = "Completed" THEN <<Recording(n)>> \o NewestFirst(n - 1)
         ELSE NewestFirst(n - 1)

BackendGetRecordings(c) ==
    /\ c.op = "get_recordings" /\ c.pc = "await"
    /\ calls' = Respond(c, [c EXCEPT !.pc = "resp",
                                                !.recs = NewestFirst(MaxRecordings)])
    /\ UNCHANGED <<feVars, beVars, lastResult>>
    /\ UNCHANGED <<cliVars, ipc>>

\* ------------------------------------------------- frontend: recordings list
\* loadRecordingsAtom after its await: replace the list, or log the error.
LoadReturns(c) ==
    /\ c.op = "get_recordings" /\ c.pc = "resp" /\ ~c.orphan
    /\ IF c.err = ""
       THEN /\ recordingsAtom' = c.recs
            /\ isTranscribing' = Mounted(recordingsAtom', isTranscribing, FALSE)
                    /\ lastResult' = Result("load", "ok", "", NoId)
            /\ UNCHANGED <<recordingStateAtom, currentRecordingAtom>>
       ELSE /\ lastResult' = Result("load", "error", c.err, NoId)
            /\ UNCHANGED feVars
    /\ calls' = Removed(c)
    /\ UNCHANGED beVars
    /\ UNCHANGED <<cliVars, ipc>>

\* The page is loaded anew while the backend process lives on: every atom and
\* every useState is back at its initial value, continuations of the old page
\* never run, and RecordingsList's mount effect calls loadRecordings.
Orphan(c) == [c EXCEPT !.orphan = TRUE]
Awaited == {c \in InFlight : c.pc # "resp"}
Orphans ==
    [d \in {Orphan(c) : c \in Awaited} |->
        (IF d \in Awaited THEN calls[d] ELSE 0)
        + (IF [d EXCEPT !.orphan = FALSE] \in Awaited
           THEN calls[[d EXCEPT !.orphan = FALSE]] ELSE 0)]

Reload ==
    /\ BagCardinality(Orphans) < MaxInFlight
    /\ recordingStateAtom' = InitialRecordingState
    /\ recordingsAtom' = <<>>
    /\ currentRecordingAtom' = NoId
    /\ isTranscribing' = [r \in RecordingIds |-> FALSE]
    /\ calls' = Orphans (+) SetToBag({Call("get_recordings", NoId)})
    /\ lastResult' = NoResult
    /\ UNCHANGED beVars
    /\ UNCHANGED <<cliVars, ipc>>

\* ---------------------------------------------------- frontend: transcribe
\* types/recording.ts isValidTranscriptionStatus: one of the three bare
\* strings, or an object with a Failed string.
isValidTranscriptionStatus(status) ==
    status \in {"Pending", "Processing", "Completed", "Failed"}

\* The end of handleTranscribe: finally { setIsTranscribing(false) }.
Finally(r) ==
    /\ isTranscribing' = Mounted(recordingsAtom, [isTranscribing EXCEPT ![r] = FALSE], FALSE)
    /\ UNCHANGED <<recordingStateAtom, recordingsAtom, currentRecordingAtom>>

\* RecordingItem.handleTranscribe up to its first await.
TranscribeGuardFails(r) == isTranscribing[r]

handleTranscribe(r) ==
    /\ r \in IdsIn(recordingsAtom)
    /\ IF TranscribeGuardFails(r)
       THEN /\ lastResult' = Result("transcribe", "ignored", "", NoId)
            /\ UNCHANGED <<feVars, calls>>
       ELSE /\ HasFreeSlot
            /\ isTranscribing' = [isTranscribing EXCEPT ![r] = TRUE]
            /\ calls' = Added(Call("is_whisper_initialized", r))
            /\ UNCHANGED lastResult
            /\ UNCHANGED <<recordingStateAtom, recordingsAtom, currentRecordingAtom>>
    /\ UNCHANGED beVars
    /\ UNCHANGED <<cliVars, ipc>>

\* TauriService.isWhisperInitialized returns false on an error; the handler
\* then initialises the engine first, and otherwise transcribes at once.
IsInitializedReturns(c) ==
    /\ c.op = "is_whisper_initialized" /\ c.pc = "resp" /\ ~c.orphan
    /\ LET isInitialized == c.err = "" /\ c.id = 1
       IN calls' = Replaced(c, IF isInitialized
                               THEN Call("transcribe_recording", c.arg)
                               ELSE Call("initialize_whisper", c.arg))
    /\ UNCHANGED lastResult
    /\ UNCHANGED <<feVars, beVars>>
    /\ UNCHANGED <<cliVars, ipc>>

InitializeReturns(c) ==
    /\ c.op = "initialize_whisper" /\ c.pc = "resp" /\ ~c.orphan
    /\ IF c.err = ""
       THEN /\ calls' = Replaced(c, Call("transcribe_recording", c.arg))
            /\ UNCHANGED lastResult
            /\ UNCHANGED feVars
       ELSE /\ calls' = Removed(c)
            /\ lastResult' = Result("transcribe", "error", c.err, NoId)
            /\ Finally(c.arg)
    /\ UNCHANGED beVars
    /\ UNCHANGED <<cliVars, ipc>>

\* TauriService.transcribeRecording after its await (the result must pass
\* isValidTranscription), then setTranscription and the finally block.
TranscribeReturns(c) ==
    /\ c.op = "transcribe_recording" /\ c.pc = "resp" /\ ~c.orphan
    /\ LET err == IF c.err # "" THEN c.err
                  ELSE IF ~isValidTranscriptionStatus(c.recs[1].status)
                       THEN "InvalidTranscription"
                       ELSE ""
       IN IF err = ""
          THEN /\ lastResult' = Result("transcribe", "ok", "", c.id)
               /\ Finally(c.arg)
          ELSE /\ lastResult' = Result("transcribe", "error", err, NoId)
               /\ Finally(c.arg)
    /\ calls' = Removed(c)
    /\ UNCHANGED beVars
    /\ UNCHANGED <<cliVars, ipc>>

\* ------------------------------------------------------ backend: transcribe
BackendIsWhisperInitialized(c) ==
    /\ c.op = "is_whisper_initialized" /\ c.pc = "await"
    /\ calls' = Respond(c, [c EXCEPT !.pc = "resp",
                                                !.id = IF whisperInitialized THEN 1 ELSE 0])
    /\ UNCHANGED <<feVars, beVars, lastResult>>
    /\ UNCHANGED <<cliVars, ipc>>

BackendInitializeWhisper(c) ==
    /\ c.op = "initialize_whisper" /\ c.pc = "await"
    /\ \E installed \in BOOLEAN :
         IF installed
         THEN /\ whisperInitialized' = TRUE
              /\ calls' = Respond(c, [c EXCEPT !.pc = "resp"])
         ELSE /\ UNCHANGED whisperInitialized
              /\ calls' = Respond(c, [c EXCEPT !.pc = "resp", !.err = "InitFailure"])
    /\ UNCHANGED <<feVars, lastResult, session, sessionId, nextId, recStatus, transcriptions>>
    /\ UNCHANGED <<cliVars, ipc>>

\* The recording's current transcription is the one still on its way to a
\* terminal status.
InProgress(r) ==
    \E t \in TranscriptionIds :
        /\ transcriptions[t].recording_id = r
        /\ transcriptions[t].status \in {"Pending", "Processing"}

FreeTranscriptionIds == {t \in TranscriptionIds : transcriptions[t].status = "None"}
NewTranscriptionId == CHOOSE t \in FreeTranscriptionIds : \A u \in FreeTranscriptionIds : t <= u

\* transcribe_recording on its arrival: RecordingNotFound, ConflictError, or a
\* new Transcription in status Pending.  The number of records is capped by
\* MaxTranscriptions.
TranscribeRejection(r) ==
    IF recStatus[r] # "Completed" THEN "RecordingNotFound"
    ELSE IF InProgress(r) THEN "ConflictError"
    ELSE ""

BackendTranscribeRecording(c) ==
    /\ c.op = "transcribe_recording" /\ c.pc = "await"
    /\ LET r == c.arg
       IN IF TranscribeRejection(r) # ""
          THEN /\ calls' = Respond(c, [c EXCEPT !.pc = "resp",
                                                           !.err = TranscribeRejection(r)])
               /\ UNCHANGED transcriptions
          ELSE /\ FreeTranscriptionIds # {}
               /\ transcriptions' = [transcriptions EXCEPT ![NewTranscriptionId] =
                                        [recording_id |-> r, status |-> "Pending"]]
               /\ calls' = Replaced(c, [c EXCEPT !.pc = "engine", !.id = NewTranscriptionId])
    /\ UNCHANGED <<feVars, lastResult, session, sessionId, nextId, recStatus,
                   whisperInitialized>>
    /\ UNCHANGED <<cliVars, ipc>>

\* The engine invocation starts: Pending -> Processing.
EngineStarts(t) ==
    /\ transcriptions[t].status = "Pending"
    /\ transcriptions' = [transcriptions EXCEPT ![t].status = "Processing"]
    /\ UNCHANGED <<feVars, calls, lastResult, session, sessionId, nextId, recStatus,
                   whisperInitialized>>
    /\ UNCHANGED <<cliVars, ipc>>

\* Mutant: a failed engine run puts the Transcription back in the queue.
EngineExitsRequeues(c) ==
    /\ c.op = "transcribe_recording" /\ c.pc = "engine"
    /\ transcriptions[c.id].status = "Processing"
    /\ \E exitZero \in BOOLEAN :
         IF exitZero
         THEN /\ transcriptions' = [transcriptions EXCEPT ![c.id].status = "Completed"]
              /\ calls' = Respond(c, [c EXCEPT !.pc = "resp",
                                             !.recs = <<transcriptions'[c.id]>>])
         ELSE /\ transcriptions' = [transcriptions EXCEPT ![c.id].status = "Pending"]
              /\ UNCHANGED calls
    /\ UNCHANGED <<feVars, lastResult, session, sessionId, nextId, recStatus,
                   whisperInitialized>>
    /\ UNCHANGED <<cliVars, ipc>>

\* The engine subprocess exits: exit status zero gives Completed and the
\* Transcription is returned, any other gives Failed and EngineFailure.
EngineExits(c) ==
    /\ c.op = "transcribe_recording" /\ c.pc = "engine"
    /\ transcriptions[c.id].status = "Processing"
    /\ \E exitZero \in BOOLEAN :
         IF exitZero
         THEN /\ transcriptions' = [transcriptions EXCEPT ![c.id].status = "Completed"]
              /\ calls' = Respond(c, [c EXCEPT !.pc = "resp",
                                             !.recs = <<transcriptions'[c.id]>>])
         ELSE /\ transcriptions' = [transcriptions EXCEPT ![c.id].status = "Failed"]
              /\ calls' = Respond(c, [c EXCEPT !.pc = "resp", !.err = "EngineFailure"])
    /\ UNCHANGED <<feVars, lastResult, session, sessionId, nextId, recStatus,
                   whisperInitialized>>
    /\ UNCHANGED <<cliVars, ipc>>

\* ---------------------------------------------------- frontend: delete
\* RecordingItem.handleDelete and RecordingsList.handleDelete up to the await
\* in deleteRecordingAtom: the invoke of delete_recording for a listed item.
handleDelete(r) ==
    /\ r \in IdsIn(recordingsAtom)
    /\ HasFreeSlot
    /\ calls' = Added(Call("delete_recording", r))
    /\ UNCHANGED lastResult
    /\ UNCHANGED <<feVars, beVars>>
    /\ UNCHANGED <<cliVars, ipc>>

\* Mutant: the filter keeps the entries of that id and drops the others.
Only(list, r) == SelectSeq(list, LAMBDA x : x.id = r)
\* recordings.filter(r => r.id !== recordingId)
Without(list, r) == SelectSeq(list, LAMBDA x : x.id # r)

\* Mutant: the list is filtered whatever the backend answered.
DeleteReturnsAlwaysFilters(c) ==
    /\ c.op = "delete_recording" /\ c.pc = "resp" /\ ~c.orphan
    /\ recordingsAtom' = Without(recordingsAtom, c.arg)
    /\ isTranscribing' = Mounted(recordingsAtom', isTranscribing, FALSE)
    /\ lastResult' = Result("delete", IF c.id = 1 THEN "true" ELSE "false", "", c.arg)
    /\ calls' = IF c.id = 1 THEN Replaced(c, Call("get_recordings", NoId)) ELSE Removed(c)
    /\ UNCHANGED <<recordingStateAtom, currentRecordingAtom>>
    /\ UNCHANGED beVars
    /\ UNCHANGED <<cliVars, ipc>>

\* TauriService.deleteRecording throws: the invoke was rejected, or its
\* answer was not a boolean. The stores are as they were.
DeleteRejected(c) ==
    /\ c.op = "delete_recording" /\ c.pc = "await"
    /\ calls' = Respond(c, [c EXCEPT !.pc = "resp", !.err = "DeleteFailed"])
    /\ UNCHANGED <<feVars, beVars, lastResult>>
    /\ UNCHANGED <<cliVars, ipc>>

\* deleteRecordingAtom after its await: on true the entries with that id are
\* filtered out of the list, and RecordingsList.handleDelete goes on to reload
\* the list; on false nothing is touched; an error is logged and thrown on
\* to handleDelete, which shows it.
DeleteReturns(c) ==
    /\ c.op = "delete_recording" /\ c.pc = "resp" /\ ~c.orphan
    /\ IF c.err # ""
       THEN /\ lastResult' = Result("delete", "error", c.err, c.arg)
            /\ calls' = Removed(c)
            /\ UNCHANGED feVars
       ELSE IF c.id = 1
       THEN /\ recordingsAtom' = Without(recordingsAtom, c.arg)
            /\ isTranscribing' = Mounted(recordingsAtom', isTranscribing, FALSE)
            /\ lastResult' = Result("delete", "true", "", c.arg)
            /\ calls' = Replaced(c, Call("get_recordings", NoId))
            /\ UNCHANGED <<recordingStateAtom, currentRecordingAtom>>
       ELSE /\ lastResult' = Result("delete", "false", "", c.arg)
            /\ calls' = Removed(c)
            /\ UNCHANGED feVars
    /\ UNCHANGED beVars
    /\ UNCHANGED <<cliVars, ipc>>

\* ------------------------------------------------------- backend: delete
\* A record of the RecordingStore exists from its creation to its deletion.
Exists(r) == recStatus[r] \in {"Recording", "Completed", "Failed"}

\* The row of a deleted Transcription; its id is not given out again.
DeletedTranscription == [recording_id |-> NoId, status |-> "Deleted"]

\* Mutant: the Transcriptions of the deleted Recording are left in the store.
CascadeNothing(r) == transcriptions

\* The TranscriptionStore after the cascading delete for recording r.
Cascade(r) ==
    [t \in TranscriptionIds |->
        IF transcriptions[t].recording_id = r THEN DeletedTranscription
        ELSE transcriptions[t]]

\* delete_recording: true and the record (with its Transcriptions) removed if
\* it existed, false otherwise.
BackendDeleteRecording(c) ==
    /\ c.op = "delete_recording" /\ c.pc = "await"
    /\ IF Exists(c.arg)
       THEN /\ recStatus' = [recStatus EXCEPT ![c.arg] = "Deleted"]
            /\ transcriptions' = Cascade(c.arg)
            /\ calls' = Respond(c, [c EXCEPT !.pc = "resp", !.id = 1])
       ELSE /\ calls' = Respond(c, [c EXCEPT !.pc = "resp", !.id = 0])
            /\ UNCHANGED <<recStatus, transcriptions>>
    /\ UNCHANGED <<session, sessionId, nextId, whisperInitialized, feVars, lastResult>>
    /\ UNCHANGED <<cliVars, ipc>>

\* The engine's result arrives for a Transcription that has been deleted in
\* the meantime: there is no row to update and nothing to return.
EngineRecordGone(c) ==
    /\ c.op = "transcribe_recording" /\ c.pc = "engine"
    /\ transcriptions[c.id].status = "Deleted"
    /\ calls' = Respond(c, [c EXCEPT !.pc = "resp", !.err = "NotFoundError"])
    /\ UNCHANGED <<feVars, beVars, lastResult>>
    /\ UNCHANGED <<cliVars, ipc>>

\* ------------------------------------------------------------------- Next
\* The recording session: RecordingControls, the timer and the list's load.
SessionNext ==
    \/ startRecordingAtom
    \/ stopRecordingAtom
    \/ handleRecordingToggle
    \/ TimerTick
    \/ Reload
    \/ \E c \in InFlight : StartReturns(c)
    \/ \E c \in InFlight : StopReturns(c)
    \/ \E c \in InFlight : LoadReturns(c)
    \/ \E c \in InFlight : BackendStartRecording(c)
    \/ \E c \in InFlight : BackendStopRecording(c)
    \/ \E c \in InFlight : BackendGetRecordings(c)

\* Transcription of the listed recordings: RecordingItem and the list's load.
TranscribeNext ==
    \/ Reload
    \/ \E r \in RecordingIds : handleTranscribe(r)
    \/ \E c \in InFlight : LoadReturns(c)
    \/ \E c \in InFlight : IsInitializedReturns(c)
    \/ \E c \in InFlight : InitializeReturns(c)
    \/ \E c \in InFlight : TranscribeReturns(c)
    \/ \E c \in InFlight : BackendGetRecordings(c)
    \/ \E c \in InFlight : BackendIsWhisperInitialized(c)
    \/ \E c \in InFlight : BackendInitializeWhisper(c)
    \/ \E c \in InFlight : BackendTranscribeRecording(c)
    \/ \E t \in TranscriptionIds : EngineStarts(t)
    \/ \E c \in InFlight : EngineExits(c)

\* Deleting listed recordings.
DeleteNext ==
    \/ \E r \in RecordingIds : handleDelete(r)
    \/ \E c \in InFlight : DeleteReturns(c)
    \/ \E c \in InFlight : DeleteRejected(c)
    \/ \E c \in InFlight : BackendDeleteRecording(c)

Next == SessionNext \/ TranscribeNext \/ DeleteNext \/ \E c \in InFlight : EngineRecordGone(c)

\* The whole application.
Spec == Init /\ [][Next]_vars
\* The application while nobody asks for a transcription.
SpecSession == Init /\ [][SessionNext]_vars
\* The application while nobody records.
SpecTranscribe == Init /\ [][TranscribeNext]_vars
\* The recordings list: recording sessions and deletes, no transcription.
ListNext == SessionNext \/ DeleteNext
SpecList == Init /\ [][ListNext]_vars
\* Transcribing and deleting the recordings of earlier sessions.
CascadeNext == TranscribeNext \/ DeleteNext \/ \E c \in InFlight : EngineRecordGone(c)
SpecCascade == Init /\ [][CascadeNext]_vars
\* Deleting listed recordings and reloading the list, nothing else.
DeleteOnlyNext ==
    \/ Reload
    \/ \E c \in InFlight : LoadReturns(c)
    \/ \E c \in InFlight : BackendGetRecordings(c)
    \/ DeleteNext
SpecDelete == Init /\ [][DeleteOnlyNext]_vars
\* Transcribing the oldest recording while any listed recording is deleted.
CascadeFirstNext ==
    \/ Reload
    \/ handleTranscribe(1)
    \/ \E c \in InFlight : LoadReturns(c)
    \/ \E c \in InFlight : IsInitializedReturns(c)
    \/ \E c \in InFlight : InitializeReturns(c)
    \/ \E c \in InFlight : TranscribeReturns(c)
    \/ \E c \in InFlight : BackendGetRecordings(c)
    \/ \E c \in InFlight : BackendIsWhisperInitialized(c)
    \/ \E c \in InFlight : BackendInitializeWhisper(c)
    \/ \E c \in InFlight : BackendTranscribeRecording(c)
    \/ \E t \in TranscriptionIds : EngineStarts(t)
    \/ \E c \in InFlight : EngineExits(c)
    \/ DeleteNext
    \/ \E c \in InFlight : EngineRecordGone(c)
SpecCascadeFirst == Init /\ [][CascadeFirstNext]_vars

\* -------------------------------------------------- the test tool: its run
Line(kind, content) == [kind |-> kind, content |-> content]

\* run up to the call of transcribe_audio: parse_options, the help message
\* for a missing file argument, then validate_audio_file.
parse_options ==
    /\ pc = "run"
    /\ tester' = ParseAll(tester, argv.options)
    /\ pc' = "parsed"
    /\ UNCHANGED <<argv, file, recognized, script, python, cli>>
    /\ UNCHANGED <<appVars, ipc>>

validate_audio_file ==
    /\ pc = "parsed"
    /\ IF argv.positional = <<>>
       THEN cli' = Exit(<<Line("help", <<>>)>>, 1) /\ pc' = "exit"
       ELSE IF ~file.exists
       THEN cli' = Exit(<<Line("error: not found", <<>>)>>, 1) /\ pc' = "exit"
       ELSE IF ~file.isFile
       THEN cli' = Exit(<<Line("error: directory", <<>>)>>, 1) /\ pc' = "exit"
       ELSE LET warned == [i \in 1..Len(ExtensionWarning(file)) |->
                              Line(ExtensionWarning(file)[i], <<>>)]
            IN IF TooLarge(file)
               THEN /\ cli' = Exit(warned \o <<Line("error: too large", <<>>)>>, 1)
                    /\ pc' = "exit"
               ELSE /\ cli' = [cli EXCEPT !.out = warned]
                    /\ pc' = "validated"
    /\ UNCHANGED <<argv, file, recognized, tester, script, python>>
    /\ UNCHANGED <<appVars, ipc>>

\* transcribe_audio up to Open3.capture3: the program is built and handed
\* to python3 -c.
transcribe_audio ==
    /\ pc = "validated"
    /\ script' = build_whisper_script(tester, argv.positional[1])
    /\ pc' = "python"
    /\ UNCHANGED <<argv, file, recognized, tester, python, cli>>
    /\ UNCHANGED <<appVars, ipc>>

\* os.path.exists(audio_file) in the program: the file that run has
\* validated is there; a string other than its path may name a file or not.
PathExists(value, audio_file) == IF value = audio_file THEN {TRUE} ELSE BOOLEAN

\* python3 compiles the program and executes its statements in order: first
\* the try statement, whose handler prints the exception and exits with 1.
\* The body of a try statement must be indented throughout. The body begins
\* with the assignment of the path and what the path has added to it: a
\* name that is not bound raises NameError, a string does nothing. Then the
\* file is looked for, and sys.exit(1) ends the program if it is not there.
PythonTry ==
    /\ pc = "python"
    /\ LET line == PathLiteral(script.audio_file)
       IN IF script.audio_processing.indent # RawFile.indent \/ line.error
          THEN /\ python' = Process(<<>>, <<"SyntaxError">>, 1, python.names)
               /\ pc' = "python exited"
          ELSE IF \E i \in 1..Len(line.injected) : line.injected[i] = "name"
          THEN /\ python' = Process(<<>>, <<"NameError">>, 1, python.names)
               /\ pc' = "python exited"
          ELSE \E found \in PathExists(line.value, script.audio_file) :
                 IF ~found
                 THEN /\ python' = Process(<<>>, <<"Error: Audio file not found">>, 1,
                                           python.names)
                      /\ pc' = "python exited"
                 ELSE LET body == TryBody(script, recognized, python.names)
                      IN IF body.raised # ""
                         THEN /\ python' = Process(body.printed, <<body.raised>>, 1,
                                                   python.names)
                              /\ pc' = "python exited"
                         ELSE /\ python' = Process(body.printed, <<>>, python.status,
                                                   python.names)
                              /\ pc' = "python def"
    /\ UNCHANGED <<argv, file, recognized, tester, script, cli>>
    /\ UNCHANGED <<appVars, ipc>>

\* ... then the def statement of format_time, after which the program ends.
PythonDef ==
    /\ pc = "python def"
    /\ python' = [python EXCEPT !.names = @ \cup {"format_time"}, !.status = 0]
    /\ pc' = "python exited"
    /\ UNCHANGED <<argv, file, recognized, tester, script, cli>>
    /\ UNCHANGED <<appVars, ipc>>

\* stdout.strip in transcribe_audio: only the text rendering can begin or
\* end with blanks.
StripOutput(format, stdout) ==
    IF format \in {"json", "srt"} THEN stdout
    ELSE [i \in 1..Len(stdout) |-> Strip(stdout[i])]

\* Mutant: a process counts as a success when it has printed a text that is
\* not empty.
SuccessByText(process) == process.stdout # <<>> /\ process.stdout # << <<>> >>
\* status.success?
Success(process) == process.status = 0

\* transcribe_audio after Open3.capture3: the result by the exit status.
capture3 ==
    /\ pc = "python exited"
    /\ cli' = [cli EXCEPT !.result =
                  IF Success(python)
                  THEN [success |-> TRUE,
                        text |-> StripOutput(tester.output_format, python.stdout),
                        stderr |-> python.stderr]
                  ELSE [success |-> FALSE, error |-> python.stderr,
                        stdout |-> python.stdout]]
    /\ pc' = "transcribed"
    /\ UNCHANGED <<argv, file, recognized, tester, script, python>>
    /\ UNCHANGED <<appVars, ipc>>

\* Mutant: the run ends with 0 whatever the result of the engine.
ExitStatusZero(result) == 0
\* The status the run ends with after output_result: exit 1 for a failure,
\* the end of the program otherwise.
ExitStatus(result) == IF result.success THEN 0 ELSE 1

\* output_result, and the end of run.
output_result ==
    /\ pc = "transcribed"
    /\ IF cli.result.success
       THEN cli' = [cli EXCEPT
                       !.out = @ \o (IF tester.output_format = "text"
                                     THEN [i \in 1..Len(cli.result.text) |->
                                              Line("text", cli.result.text[i])]
                                     ELSE <<>>),
                       !.status = ExitStatus(cli.result)]
       ELSE cli' = [cli EXCEPT !.out = @ \o <<Line("error: transcription failed", <<>>)>>,
                               !.status = ExitStatus(cli.result)]
    /\ pc' = "exit"
    /\ UNCHANGED <<argv, file, recognized, tester, script, python>>
    /\ UNCHANGED <<appVars, ipc>>

ToolNext ==
    \/ parse_options
    \/ validate_audio_file
    \/ transcribe_audio
    \/ PythonTry
    \/ PythonDef
    \/ capture3
    \/ output_result

\* The tool is started with a command line, on a file, with an engine that
\* will recognise something; the desktop application is not involved.
ToolInit(commandLines, files, recognitions) ==
    /\ AppInit /\ nextId = 1
    /\ IpcAtRest
    /\ argv \in commandLines
    /\ file \in files
    /\ recognized \in recognitions
    /\ tester = NewTester
    /\ pc = "run"
    /\ script = NoScript
    /\ python = NoProcess
    /\ cli = Running

\* Contents of at most MaxTextLen tokens, and lists of at most MaxSegments
\* segments.
Contents == UNION {[1..n -> Tokens] : n \in 0..MaxTextLen}
Segments ==
    {Segment(0, 61500, <<"a">>), Segment(61500, 63250, <<" ", "a", " ">>),
     Segment(3661250, 360000000, <<>>)}
SegmentLists == UNION {[1..n -> Segments] : n \in 0..MaxSegments}

\* Every command line over the known options, on a good file.
SpecParams ==
    /\ ToolInit({CommandLine(o, <<AudioPath>>) : o \in CommandLines(Options)},
                {AudioFile}, {Plain})
    /\ [][ToolNext]_vars

\* Every language and format, with and without preprocessing, on every
\* recognised text and every list of segments.
OutputCommandLines ==
    {CommandLine(<<Option("-l", l), Option("-f", f)>> \o n, <<AudioPath>>) :
        l \in Languages, f \in Formats,
        n \in {<<>>, <<Option("--no-preprocessing", "")>>}}
EchoPrefixes == {<<>>} \cup {prompt_patterns[i] : i \in 1..Len(prompt_patterns)}
Recognitions ==
    {Recognition(FALSE, p \o c, <<>>) : p \in EchoPrefixes, c \in Contents}
      \cup {Recognition(FALSE, <<"a">>, s) : s \in SegmentLists}
      \cup {Recognition(TRUE, <<>>, <<>>)}

SpecOutput ==
    /\ ToolInit(OutputCommandLines, {AudioFile}, Recognitions)
    /\ [][ToolNext]_vars

\* Every kind of file argument.
FileCommandLines ==
    {CommandLine(n, p) : n \in {<<>>, <<Option("--no-preprocessing", "")>>},
                         p \in {<<>>, <<AudioPath>>}}
SpecFile ==
    /\ ToolInit(FileCommandLines, Files, {Plain, Recognition(TRUE, <<>>, <<>>)})
    /\ [][ToolNext]_vars

\* Every text of at most MaxEchoLen tokens, recognised in a run for "ja" or
\* "en" that prints the text.
EchoTexts == UNION {[1..n -> Tokens] : n \in 0..MaxEchoLen}
EchoCommandLines ==
    {CommandLine(<<Option("-l", l), Option("--no-preprocessing", "")>>, <<AudioPath>>) :
        l \in Languages}
SpecEcho ==
    /\ ToolInit(EchoCommandLines, {AudioFile},
                {Recognition(FALSE, t, <<>>) : t \in EchoTexts})
    /\ [][ToolNext]_vars

\* Every path of at most MaxPathLen characters, naming a good file.
Paths == UNION {[1..n -> PathChars] : n \in 0..MaxPathLen}
PathCommandLines ==
    {CommandLine(n, <<p>>) : n \in {<<>>, <<Option("--no-preprocessing", "")>>},
                            p \in Paths}
SpecPath ==
    /\ ToolInit(PathCommandLines, {AudioFile}, {Plain})
    /\ [][ToolNext]_vars

\* ------------------------------------------------- TauriService: one invoke
\* The promise of invoke resolves with the answer, and the method validates
\* it: it returns or throws.
Resolves ==
    /\ ipc.state = "awaiting"
    /\ ipc' = Invoke(ipc.op, "settled", ipc.result, Outcome(ipc.op, ipc.result))
    /\ UNCHANGED <<appVars, cliVars>>

\* Each method of TauriService that returns data of the backend has been
\* called once, and the backend is about to answer with one of the answers.
IpcInit ==
    /\ AppInit /\ nextId = 1
    /\ ToolAtRest
    /\ ipc \in {Invoke(op, "awaiting", result, Returned(JsUndefined)) :
                   op \in IpcOps, result \in Answers}
SpecIpc == IpcInit /\ [][Resolves]_vars

\* ================================================================== claims
TranscribeOps == {"is_whisper_initialized", "initialize_whisper", "transcribe_recording"}
\* How many calls of the running page satisfy Is.
Count(Is(_)) ==
    BagCardinality([c \in {d \in InFlight : Is(d) /\ ~d.orphan} |-> calls[c]])
IsStart(c) == c.op = "start_recording"
Answered(c, d) == c.orphan \/ d \in BagToSet(calls')

\* C1: in every reachable state, whatever the interleaving of start and stop
\* calls (overlapping ones included), at most one Recording has status
\* Recording, and it is the manager's active session.
C1_AtMostOneActiveRecording ==
    /\ Cardinality({r \in RecordingIds : recStatus[r] = "Recording"}) <= 1
    /\ \A r \in RecordingIds :
         recStatus[r] = "Recording" <=> (session = "Recording" /\ sessionId = r)

\* C1 witness: a session is active while a second start call, issued before
\* the first one returned, is in flight.
C1_Witness ==
    /\ session = "Recording"
    /\ \E c \in InFlight : IsStart(c) /\ c.pc = "resp" /\ c.id = sessionId /\ ~c.orphan
    /\ \E c \in InFlight : IsStart(c) /\ c.id # sessionId /\ ~c.orphan

\* C2: a start that is not allowed fails and changes nothing.  A start called
\* while the frontend state is recording fails at once with no call made; a
\* start_recording reaching the backend while its manager is not Idle is
\* answered ConflictError with no id allocated and the session as it was; and
\* the failed call leaves the atoms as they were.
C2_RejectedStartChangesNothing ==
    [][ /\ (startRecordingAtom /\ recordingStateAtom.isRecording) =>
              /\ lastResult' = Result("start", "error", "AlreadyInProgress", NoId)
              /\ UNCHANGED <<feVars, beVars, calls>>
        /\ \A c \in InFlight :
              (BackendStartRecording(c) /\ session # "Idle") =>
                  /\ UNCHANGED <<beVars, feVars>>
                  /\ Answered(c, [c EXCEPT !.pc = "resp", !.err = "ConflictError"])
        /\ \A c \in InFlight :
              (StartReturns(c) /\ c.err # "") =>
                  /\ lastResult' = Result("start", "error", c.err, NoId)
                  /\ UNCHANGED <<feVars, beVars>>
      ]_vars

\* C2 witness: a second start with no stop in between has failed and the
\* original session is still the current one.
C2_Witness ==
    /\ lastResult = Result("start", "error", "AlreadyInProgress", NoId)
    /\ recordingStateAtom.isRecording
    /\ session = "Recording"
    /\ currentRecordingAtom = sessionId

\* C3: a stop that is not allowed fails and changes nothing.  A stop called
\* while the frontend state is not recording fails at once with no call made;
\* a stop_recording reaching the backend while its manager is not Recording is
\* answered NotRecordingError; the session state, the current recording and
\* the list of recordings stay as they were.
C3_RejectedStopChangesNothing ==
    [][ /\ (stopRecordingAtom /\ ~recordingStateAtom.isRecording) =>
              /\ lastResult' = Result("stop", "error", "NoActiveSession", NoId)
              /\ UNCHANGED <<feVars, beVars, calls>>
        /\ \A c \in InFlight :
              (BackendStopRecording(c) /\ session # "Recording") =>
                  /\ UNCHANGED <<beVars, feVars>>
                  /\ Answered(c, [c EXCEPT !.pc = "resp", !.err = "NotRecordingError"])
        /\ \A c \in InFlight :
              (StopReturns(c) /\ c.err = "NotRecordingError") =>
                  /\ lastResult' = Result("stop", "error", c.err, NoId)
                  /\ UNCHANGED <<feVars, beVars>>
      ]_vars

\* C3 witness: a stop with nothing being recorded has failed, after an
\* earlier recording was completed and listed.
C3_Witness ==
    /\ lastResult = Result("stop", "error", "NoActiveSession", NoId)
    /\ ~recordingStateAtom.isRecording
    /\ session = "Idle"
    /\ recordingsAtom # <<>>

\* C4: a stop that succeeds from Recording leaves the backend manager Idle and
\* the Recording of the stopped session persisted and returned; when it
\* returns, the frontend is back in its idle state (a following start passes
\* the guard), the result is that Recording, and it heads the list.
C4_SuccessfulStopReturnsToIdle ==
    [][ /\ \A c \in InFlight :
              (BackendStopRecording(c) /\ session = "Recording"
                 /\ recStatus'[sessionId] = "Completed") =>
                  /\ session' = "Idle"
                  /\ Answered(c, [c EXCEPT !.pc = "resp",
                                           !.recs = <<Recording(sessionId)>>])
        /\ \A c \in InFlight :
              (StopReturns(c) /\ c.err = "") =>
                  /\ recordingStateAtom' = InitialRecordingState
                  /\ currentRecordingAtom' = NoId
                  /\ recordingsAtom' # <<>>
                  /\ Head(recordingsAtom') = c.recs[1]
                  /\ lastResult' = Result("stop", "ok", "", c.recs[1].id)
      ]_vars

\* C4 witness: a stop has succeeded, the frontend and the backend are idle and
\* the returned Recording is persisted and heads the list.
C4_Witness ==
    /\ lastResult.op = "stop" /\ lastResult.outcome = "ok"
    /\ ~recordingStateAtom.isRecording /\ session = "Idle"
    /\ recordingsAtom # <<>>
    /\ Head(recordingsAtom).id = lastResult.id
    /\ recStatus[lastResult.id] = "Completed"

\* C5: when stop_recording fails during finalization, the session state is
\* reset to Idle all the same.
C5_FailedStopResetsToIdle ==
    [][ \A c \in InFlight :
          (StopReturns(c) /\ c.err = "FinalizationError") =>
              ~recordingStateAtom'.isRecording
      ]_vars

\* C6: of the start requests issued concurrently at most one passes the guard
\* and is on its way to the backend as a start.
C6_AtMostOneStartInFlight == Count(IsStart) <= 1

\* C7: a transcribe request for a recording whose current Transcription is
\* Processing is not silently ignored: it ends in an error.
ProcessingFor(r) ==
    \E t \in TranscriptionIds :
        transcriptions[t].recording_id = r /\ transcriptions[t].status = "Processing"

StatusStep(old, new) ==
    \/ new = old
    \/ old = "None" /\ new = "Pending"
    \/ old = "Pending" /\ new = "Processing"
    \/ old = "Processing" /\ new \in {"Completed", "Failed"}

C8_StatusMovesForward ==
    [][ \A t \in TranscriptionIds :
          /\ StatusStep(transcriptions[t].status, transcriptions'[t].status)
          /\ transcriptions[t].status # "None" =>
                transcriptions'[t].recording_id = transcriptions[t].recording_id
      ]_vars

\* C8 witness: a recording has been transcribed anew after an earlier
\* Transcription of it failed; the earlier one is still Failed.
C8_Witness ==
    \E t, u \in TranscriptionIds :
        /\ transcriptions[t].recording_id = transcriptions[u].recording_id
        /\ transcriptions[t].status = "Failed"
        /\ transcriptions[u].status = "Completed"

C10_StopStartsTranscription ==
    [][ \A c \in InFlight :
          (StopReturns(c) /\ c.err = "") =>
              \E d \in BagToSet(calls') :
                  d.op \in TranscribeOps /\ d.arg = c.recs[1].id
      ]_vars

Live(t) == transcriptions[t].status \in {"Pending", "Processing", "Completed", "Failed"}

C12_DeleteCascades ==
    /\ \A t \in TranscriptionIds : Live(t) => Exists(transcriptions[t].recording_id)
    /\ \A c \in InFlight :
         (c.op = "delete_recording" /\ c.pc = "resp" /\ c.id = 1) =>
             \A t \in TranscriptionIds : transcriptions[t].recording_id # c.arg

\* C12 witness: a recording was deleted while the engine was at work on it;
\* the delete has answered true and the Transcription is gone.
C12_Witness ==
    \E c, d \in InFlight :
        /\ c.op = "delete_recording" /\ c.pc = "resp" /\ c.id = 1
        /\ d.op = "transcribe_recording" /\ d.pc = "engine" /\ d.arg = c.arg
        /\ transcriptions[d.id] = DeletedTranscription

\* C13: the displayed list is ordered newest first: every recording in it was
\* created no earlier than the recordings that follow it.
NewestFirstOrdered(list) ==
    \A i, j \in 1..Len(list) : i < j => list[i].created_at >= list[j].created_at

C13_ListNewestFirst == NewestFirstOrdered(recordingsAtom)

\* ------------------------------------------------ claims about the test tool
Built == "params" \in DOMAIN script
Finished == pc \in {"python exited", "transcribed", "exit"} /\ Built
\* The program was well formed and the engine returned a result.
Rendered == Finished /\ script.audio_processing = RawFile /\ ~recognized.raises

\* The user's value for an option: that of its last occurrence.
Given(flag) == {i \in 1..Len(argv.options) : argv.options[i].flag = flag}
LastGiven(flag) ==
    argv.options[CHOOSE i \in Given(flag) : \A j \in Given(flag) : j <= i].value
ParamFlags == {"-t", "-b", "-s"}
KeyOf(flag) ==
    CASE flag = "-t" -> "temperature" [] flag = "-b" -> "best_of" [] flag = "-s" -> "beam_size"
UserValue(flag) ==
    IF flag = "-t" THEN Float(ToFloat(LastGiven(flag))) ELSE Integer(LastGiven(flag))

\* C14: for a language other than "ja", whatever the overrides, the parameter
\* set written into the program has none of the keys tuned for Japanese; for
\* every language it has language and task = 'transcribe'.
C14_NoJapaneseKeysElsewhere ==
    Built =>
        /\ tester.language # "ja" => DOMAIN script.params \cap JapaneseKeys = {}
        /\ {"language", "task"} \subseteq DOMAIN script.params
        /\ script.params["language"] = [quoted |-> TRUE, text |-> tester.language]
        /\ script.params["task"] = [quoted |-> TRUE, text |-> "transcribe"]

\* C14 witness: the program was built for "en" with an override of the user.
C14_Witness ==
    /\ Built
    /\ tester.language = "en"
    /\ \E flag \in ParamFlags : Given(flag) # {}

\* C15: every key the user has overridden carries the user's value in the
\* parameter set, whatever the language and the default; every other key
\* carries its default.
C15_UserValueWins ==
    Built =>
        /\ \A flag \in ParamFlags :
              Given(flag) # {} => script.params[KeyOf(flag)] = PyArg(UserValue(flag))
        /\ \A k \in DOMAIN script.params :
              (\A flag \in ParamFlags : KeyOf(flag) = k => Given(flag) = {}) =>
                  script.params[k] = PyArg(Merge(BaseParams(tester), LanguageDefaults(tester))[k])

\* C15 witness: a built program for "ja" in which the user has overridden the
\* temperature and left the beam size alone.
C15_Witness ==
    /\ Built
    /\ tester.language = "ja"
    /\ Given("-t") # {} /\ Given("-s") = {}
    /\ script.params["temperature"].text # "0.2"

\* C16: with --no-preprocessing the preprocessing stage is not part of the
\* program, the engine is given the file itself, the json rendering says
\* preprocessing false, and the flag is not among the engine's parameters.
C16_SkipPreprocessing ==
    /\ Built => "no_preprocessing" \notin DOMAIN script.params
    /\ (Built /\ Given("--no-preprocessing") # {}) =>
          /\ script.audio_processing = RawFile
          /\ script.audio_processing.code # preprocessing_code.code
          /\ script.preprocessing = "False"
    /\ (Rendered /\ Given("--no-preprocessing") # {} /\ script.output_format = "json") =>
          /\ Len(python.stdout) = 1
          /\ python.stdout[1].preprocessing = FALSE

\* C16 witness: a json rendering has been printed by a program built with
\* --no-preprocessing.
C16_Witness ==
    /\ Rendered /\ python.status = 0
    /\ Given("--no-preprocessing") # {}
    /\ script.output_format = "json"

\* C17: the srt rendering of a result with n segments prints exactly n cues,
\* numbered 1..n in the order of the segments, each with the time stamps
\* computed from the segment's start and end, and the program ends well.
C17_SrtHasOneCuePerSegment ==
    (Rendered /\ script.output_format = "srt") =>
        /\ python.status \in {-1, 0}
        /\ Len(python.stdout) = Len(recognized.segments)
        /\ \A i \in 1..Len(recognized.segments) :
              /\ python.stdout[i].index = i
              /\ python.stdout[i].start = format_time(recognized.segments[i].start)
              /\ python.stdout[i].end = format_time(recognized.segments[i].end)

\* C18: for "ja", the text made of an echo phrase followed by real content
\* is printed as that content alone, blanks collapsed and trimmed.
RealContent(c) == c \in Seq({" ", "a"}) /\ Strip(c) # <<>>
EchoThenContent ==
    \E i \in 1..Len(prompt_patterns) : \E c \in Contents :
        RealContent(c) /\ recognized.text = prompt_patterns[i] \o c
ContentOf(text) ==
    CHOOSE c \in Contents :
        \E i \in 1..Len(prompt_patterns) : RealContent(c) /\ text = prompt_patterns[i] \o c

C18_EchoPhraseRemoved ==
    (Rendered /\ script.language = "ja" /\ script.output_format = "text" /\ EchoThenContent) =>
        python.stdout = <<Strip(SubSpaces(ContentOf(recognized.text)))>>

\* C19: for "ja", a text that is empty, blank, or made of echo phrases only
\* is printed as the placeholder, never as an empty text; for another
\* language the placeholder is never printed.
RECURSIVE OnlyEchoes(_)
OnlyEchoes(text) ==
    \/ text = <<>>
    \/ Head(text) = " " /\ OnlyEchoes(Tail(text))
    \/ \E i \in 1..Len(prompt_patterns) :
          /\ Occurs(prompt_patterns[i], text, 1)
          /\ OnlyEchoes(SubSeq(text, Len(prompt_patterns[i]) + 1, Len(text)))

C19_PlaceholderForEmptyText ==
    (Rendered /\ script.output_format = "text") =>
        /\ Len(python.stdout) = 1
        /\ script.language = "ja" =>
              /\ python.stdout[1] # <<>>
              /\ OnlyEchoes(recognized.text) => python.stdout[1] = Placeholder
        /\ script.language # "ja" => python.stdout[1] # Placeholder

\* C20: a file of exactly 500 MiB passes validation, a file of one byte more
\* or larger does not, and a run whose size check fails ends with status 1
\* without a program having been built or python3 started.
IsFileArgument == argv.positional # <<>> /\ file.exists /\ file.isFile
StoppedInValidation == pc = "exit" /\ "success" \notin DOMAIN cli.result

C20_SizeLimit ==
    IsFileArgument =>
        /\ file.size >= 524288001 =>
              /\ ~Built /\ python = NoProcess
              /\ pc \in {"run", "parsed", "exit"}
              /\ pc = "exit" => cli.status = 1
        /\ file.size <= 524288000 => ~StoppedInValidation

\* C20 witness: python3 has been started on a file of exactly 500 MiB.
C20_Witness ==
    /\ IsFileArgument /\ file.size = 524288000
    /\ pc = "python exited"

\* C21: a run ends with status 1 when there is no file argument, when the
\* file is missing, a directory or too large, and when python3 ends with a
\* status other than 0; it ends with status 0 when the file passes and
\* python3 ends with 0. No run ends with another status.
ValidationFails ==
    \/ argv.positional = <<>>
    \/ ~file.exists
    \/ ~file.isFile
    \/ file.size > 500 * 1024 * 1024

C21_ExitCodes ==
    pc = "exit" =>
        /\ ValidationFails => cli.status = 1 /\ python = NoProcess
        /\ ~ValidationFails =>
              /\ python.status # 0 => cli.status = 1
              /\ python.status = 0 => cli.status = 0

\* C21 witness: a run on a good file whose python3 ended with a status other
\* than 0 has ended.
C21_Witness ==
    /\ pc = "exit"
    /\ ~ValidationFails
    /\ python.status = 1

\* C24: whatever the characters of the path, the program handed to python3
\* is the program written for a plain path with the path as the value of
\* audio_file: its first line is the one assignment of that very string and
\* nothing else, and a run that differs from another in the path alone ends
\* as that one does.
C24_PathIsAValue ==
    /\ Built =>
          /\ ~PathLiteral(script.audio_file).error
          /\ PathLiteral(script.audio_file).injected = <<>>
          /\ PathLiteral(script.audio_file).value = script.audio_file
    /\ (Rendered /\ pc = "exit") => cli.status = 0

\* C22: a file whose extension is not in the list gets the warning as the
\* first thing printed and nothing worse: the run goes on to the size check,
\* stops there only if the file is too large, and otherwise builds the
\* program from the command line alone, as for a file of a listed extension.
\* An extension of the list, in capitals or not, gets no warning.
Warned == \E i \in 1..Len(cli.out) : cli.out[i].kind = "warning: extension"

C22_UnknownExtensionOnlyWarns ==
    (IsFileArgument /\ pc \notin {"run", "parsed"}) =>
        /\ file.extname = ".txt" => cli.out # <<>> /\ cli.out[1].kind = "warning: extension"
        /\ file.extname \in {".wav", ".WAV"} => ~Warned
        /\ StoppedInValidation <=> (pc = "exit" /\ file.size > 500 * 1024 * 1024)
        /\ Built => script = build_whisper_script(ParseAll(NewTester, argv.options),
                                                  argv.positional[1])

\* C22 witness: python3 has run the program for a file named .txt.
C22_Witness ==
    /\ IsFileArgument /\ file.extname = ".txt"
    /\ Warned
    /\ pc = "python exited"

\* C23: the result of transcribe_audio is decided by the exit status of
\* python3 and nothing else. Status 0 gives a success with the text printed,
\* which may be empty; any other status gives a failure that carries stderr
\* and stdout as they were. The run reports the one as done and the other as
\* failed.
Classified == pc \in {"transcribed", "exit"} /\ "success" \in DOMAIN cli.result
EmptyText == << <<>> >>

C23_ResultByExitStatus ==
    Classified =>
        /\ cli.result.success <=> python.status = 0
        /\ cli.result.success =>
              /\ cli.result.text = StripOutput(tester.output_format, python.stdout)
              /\ pc = "exit" =>
                    \A i \in 1..Len(cli.out) : cli.out[i].kind # "error: transcription failed"
        /\ ~cli.result.success =>
              /\ cli.result.error = python.stderr /\ cli.result.error # <<>>
              /\ cli.result.stdout = python.stdout
              /\ pc = "exit" => cli.out[Len(cli.out)].kind = "error: transcription failed"

\* C23 witness: python3 has ended with 0 after printing an empty text, and
\* the run has taken it for a success.
C23_Witness ==
    /\ Classified /\ pc = "exit"
    /\ tester.output_format = "text"
    /\ python.status = 0 /\ python.stdout = EmptyText
    /\ cli.result.success /\ cli.result.text = EmptyText

\* C26: a run that ends as a success has written the rendering of the
\* result in the format asked for: for text the post-processed text, for
\* json one object with the keys text, language, segments, duration, model
\* and preprocessing, for srt one cue for each segment.
JsonKeys == {"text", "language", "segments", "duration", "model", "preprocessing"}
Succeeded == Classified /\ pc = "exit" /\ cli.result.success

C26_RenderingWritten ==
    Succeeded =>
        /\ tester.output_format = "text" =>
              cli.out = <<Line("text", PostProcessed(tester.language, recognized.text))>>
        /\ tester.output_format = "json" =>
              /\ Len(cli.out) = 1
              /\ DOMAIN cli.out[1].content = JsonKeys
        /\ tester.output_format = "srt" =>
              /\ Len(cli.out) = Len(recognized.segments)
              /\ \A i \in 1..Len(cli.out) : cli.out[i].content = Cue(i, recognized.segments[i])

\* C30: the text printed for "ja" contains none of the four echo phrases,
\* and the post-processing applied to it gives the same text again.
C30_PostProcessingFixedPoint ==
    (Rendered /\ script.language = "ja" /\ script.output_format = "text") =>
        /\ Len(python.stdout) = 1
        /\ \A i \in 1..Len(prompt_patterns) : ~Contains(prompt_patterns[i], python.stdout[1])
        /\ JapanesePostProcessing(Strip(python.stdout[1])) = python.stdout[1]

\* C28: whenever the frontend is not recording its duration is 0: a tick of
\* the timer that arrives when the recording has stopped writes nothing.
C28_IdleDurationIsZero ==
    ~recordingStateAtom.isRecording => recordingStateAtom.duration = 0

\* C28 witness: stopRecordingAtom has completed and the frontend is idle
\* with duration 0.
C28_Witness ==
    /\ ~recordingStateAtom.isRecording
    /\ recordingStateAtom.duration = 0
    /\ lastResult.op = "stop" /\ lastResult.outcome = "ok"

\* C27: whenever no call is in flight, the frontend shows a recording in
\* progress exactly when the backend's session is recording, whatever starts
\* and stops have failed and however often the page has been loaded again.
Quiescent == calls = EmptyBag

C27_FrontendMatchesBackend ==
    Quiescent => (recordingStateAtom.isRecording <=> session = "Recording")

\* C29: deleteRecordingAtom changes the list only when delete_recording has
\* answered true; it then drops every entry of that id and keeps the others
\* in their order. On false, and when the call throws, the list is as it was.
Kept(list, r) == {i \in 1..Len(list) : list[i].id # r}
DropsExactly(before, after, r) ==
    /\ Len(after) = Cardinality(Kept(before, r))
    /\ \A j \in 1..Len(after) :
          \E i \in Kept(before, r) :
             /\ after[j] = before[i]
             /\ Cardinality({k \in Kept(before, r) : k < i}) = j - 1

C29_DeleteFrame ==
    [][ \A c \in InFlight :
            DeleteReturns(c) =>
                IF c.err = "" /\ c.id = 1
                THEN DropsExactly(recordingsAtom, recordingsAtom', c.arg)
                ELSE recordingsAtom' = recordingsAtom
      ]_vars

\* C29 witness: a delete has returned true for a recording that stood among
\* others, and the others are still listed.
C29_Witness ==
    /\ lastResult.op = "delete" /\ lastResult.outcome = "true"
    /\ lastResult.id \notin IdsIn(recordingsAtom)
    /\ recordingsAtom # <<>>

\* C25: each of the six methods of TauriService that return data of the
\* backend either throws or returns the answer as it was; what it returns
\* has the shape the method promises. An answer of another shape is never
\* returned, never turned into null and never returned with items missing.
HasShape(x, strings, numbers) ==
    /\ x.kind = "object"
    /\ strings \cup numbers \subseteq DOMAIN x.fields
    /\ \A f \in strings : x.fields[f].kind = "string"
    /\ \A f \in numbers : x.fields[f].kind \in {"number", "null"}
IsRecordingValue(x) ==
    HasShape(x, {"id", "filename", "file_path", "created_at", "updated_at"},
             {"duration", "file_size"})
IsStatusValue(x) ==
    \/ x.kind = "string" /\ x.text \in {"Pending", "Processing", "Completed"}
    \/ x.kind = "object" /\ DOMAIN x.fields = {"Failed"}
                         /\ x.fields["Failed"].kind = "string"
IsTranscriptionValue(x) ==
    /\ HasShape(x, {"id", "recording_id", "text", "language", "created_at", "updated_at"},
                {"confidence", "processing_time_ms"})
    /\ "status" \in DOMAIN x.fields /\ IsStatusValue(x.fields["status"])
SatisfiesSchema(op, x) ==
    CASE op = "stopRecording" -> IsRecordingValue(x)
      [] op = "getRecordings" ->
            x.kind = "array" /\ \A i \in 1..Len(x.items) : IsRecordingValue(x.items[i])
      [] op = "getRecording" -> x.kind = "null" \/ IsRecordingValue(x)
      [] op = "transcribeRecording" -> IsTranscriptionValue(x)
      [] op = "deleteRecording" -> x.kind = "boolean"
      [] op = "getAudioDevices" ->
            x.kind = "array" /\ \A i \in 1..Len(x.items) : x.items[i].kind = "string"

C25_ValidationFailsClosed ==
    (ipc.state = "settled" /\ ~ipc.thrown) =>
        /\ SatisfiesSchema(ipc.op, ipc.result)
        /\ ipc.value = ipc.result

====
